---------------------------- MODULE Spec2Model ----------------------------
(***************************************************************************)
(* State-machine model of EnhancedChatAppComponent                         *)
(* (src/components/enhanced-chat-app.tsx): the React state and refs of the *)
(* component, the socket.io connection effect with its inbound handlers,   *)
(* and the user operations (select room, type, send, upload, room intents, *)
(* profile update).                                                        *)
(*                                                                         *)
(* Conventions                                                             *)
(*  - strings of the program whose characters matter (message bodies, the  *)
(*    draft) are sequences of tokens, so that trim() and the cipher are    *)
(*    computed and not assumed;                                            *)
(*  - JavaScript null is "null" for string-valued state, 0 for handles and *)
(*    <<>> for an optional record;                                         *)
(*  - the server and the user are the environment: every inbound event and *)
(*    every user input is drawn from a small set with \E.                  *)
(*  - membership is a history variable: the component stores nothing on a  *)
(*    'user joined' or 'user left', so the delivery itself is recorded.    *)
(***************************************************************************)
EXTENDS Naturals, Sequences, FiniteSets

VARIABLES
    session,          \* useSession().data?.user?.id, or "null"
    rooms,            \* useState<Room[]>: sequence of room ids
    selectedRoom,     \* useState<Room | null>: a room id or "null"
    messages,         \* useState<Message[]>: decrypted messages on display
    newMessage,       \* useState(''): the draft
    isSidebarOpen,    \* useState(false)
    isTyping,         \* useState(false): the remote typing indicator
    userProfile,      \* useState<UserProfile | null>: <<>> or <<profile>>
    socketRef,        \* useRef<Socket | null>: socket id, 0 for null
    typingTimeoutRef, \* useRef<Timeout | null>: timer handle, 0 for null
    sockCount,        \* number of sockets io() has created so far
    conns,            \* connected sockets: [id, room, uid] with the handler closure
    timers,           \* pending setTimeout callbacks: [h, room] with the closure
    outbox,           \* every socket.emit call, in order
    roomFetches,      \* fetch('/api/rooms') requests without a response yet
    profileFetches,   \* fetch('/api/users/<id>') requests without a response yet
    profilePuts,      \* updateProfile calls: the patch, where the call stands, the response
    membership        \* history: the last 'user joined' / 'user left' delivered, or <<>>

vars == <<session, rooms, selectedRoom, messages, newMessage, isSidebarOpen,
          isTyping, userProfile, socketRef, typingTimeoutRef, sockCount,
          conns, timers, outbox, roomFetches, profileFetches, profilePuts,
          membership>>

(***************************************************************************)
(* Bounds of the model.                                                    *)
(***************************************************************************)
MaxSock == 3      \* sockets created in one behaviour
MaxMsgs == 2      \* length of the message list
MaxOut == 3       \* recorded emit calls
MaxRooms == 2     \* length of the room list
MaxTimers == 2    \* timer handles alive at once
MaxDraft == 2     \* length of a draft grown by the emoji picker
MaxSends == 2     \* 'chat message' events emitted in one behaviour
MaxPuts == 2      \* updateProfile calls in one behaviour

LocalUser == "u1"
RemoteUser == "u2"
UserIds == {LocalUser, RemoteUser}
RoomIds == {"r1", "r2"}
MsgIds == {"m1", "m2"}
Statuses == {"sent", "delivered", "read"}
MessageTypes == {"text", "image", "video", "file"}

(***************************************************************************)
(* Strings as sequences of tokens; " " is the only whitespace token used.  *)
(***************************************************************************)
RECURSIVE TrimLeft(_)
TrimLeft(s) == IF s # <<>> /\ Head(s) = " " THEN TrimLeft(Tail(s)) ELSE s

RECURSIVE TrimRight(_)
TrimRight(s) ==
    IF s # <<>> /\ s[Len(s)] = " " THEN TrimRight(SubSeq(s, 1, Len(s) - 1)) ELSE s

Trim(s) == TrimRight(TrimLeft(s))

Hello == <<"h">>
Drafts == {<<>>, <<" ">>, Hello, <<" ", "h">>}

(***************************************************************************)
(* Payload cipher.  CryptoJS.AES.encrypt(message, passphrase).toString()   *)
(* yields "Salted__" + a fresh random salt + the body enciphered under a   *)
(* key derived from passphrase and salt.  The cipher is modelled           *)
(* symbolically: the ciphertext names the salt and the key that opens it.  *)
(***************************************************************************)
EnvEncryptionKey == "null"   \* process.env.NEXT_PUBLIC_ENCRYPTION_KEY unset
secretKey == IF EnvEncryptionKey # "null" THEN EnvEncryptionKey ELSE "default-secret-key"
Salts == {"s0", "s1"}

AESEncrypt(message, key, salt) == <<"Salted__", salt, key>> \o message

IsCiphertextUnder(c, key) == Len(c) >= 3 /\ c[1] = "Salted__" /\ c[3] = key

\* A variant that hands the message back as it came.
encryptMessagePlain(message, salt) == message

encryptMessage(message, salt) == AESEncrypt(message, secretKey, salt)

\* The text decryptMessage returns when the ciphertext opens under secretKey.
decryptMessage(ciphertext) == SubSeq(ciphertext, 4, Len(ciphertext))

\* A ciphertext made under another key: CryptoJS yields bytes that are not
\* the body; toString(Utf8) then throws 'Malformed UTF-8 data' or, when the
\* padding check leaves no bytes, returns ''.
Decryptable(ciphertext) == IsCiphertextUnder(ciphertext, secretKey)

(***************************************************************************)
(* Initial state: the component is mounted without a session, so the mount *)
(* effect does nothing.                                                    *)
(***************************************************************************)
Init ==
    /\ session = "null"
    /\ rooms = <<>>
    /\ selectedRoom = "null"
    /\ messages = <<>>
    /\ newMessage = <<>>
    /\ isSidebarOpen = FALSE
    /\ isTyping = FALSE
    /\ userProfile = <<>>
    /\ socketRef = 0
    /\ typingTimeoutRef = 0
    /\ sockCount = 0
    /\ conns = {}
    /\ timers = {}
    /\ outbox = <<>>
    /\ roomFetches = 0
    /\ profileFetches = 0
    /\ profilePuts = <<>>
    /\ membership = <<>>

(***************************************************************************)
(* The connection effect, useEffect(..., [session, selectedRoom]).         *)
(***************************************************************************)
Connected(s) == \E c \in conns : c.id = s

\* A variant whose cleanup disconnects nothing.
EffectCleanupMissing(oldSession, cs) == cs

\* A variant whose cleanup disconnects the socket the ref held at the first
\* connection (a stale capture), whatever the ref holds now.
EffectCleanupStale(oldSession, cs) ==
    IF oldSession # "null" THEN {c \in cs : c.id # 1} ELSE cs

\* The cleanup a run of the effect returned: it exists when that run saw a
\* session id, and disconnects whatever socketRef holds.
EffectCleanup(oldSession, cs) ==
    IF oldSession # "null" /\ socketRef # 0
    THEN {c \in cs : c.id # socketRef}
    ELSE cs

\* The handlers registered on the new socket close over the render's
\* selectedRoom and session.
NewConnection(id, room, uid) == [id |-> id, room |-> room, uid |-> uid]

\* Cleanup of the previous run, then the body for the new (session, room).
RunEffect(newSession, newRoom) ==
    IF newSession # "null"
    THEN /\ sockCount < MaxSock
         /\ sockCount' = sockCount + 1
         /\ socketRef' = sockCount + 1
         /\ conns' = EffectCleanup(session, conns)
                       \cup {NewConnection(sockCount + 1, newRoom, newSession)}
         /\ roomFetches' = roomFetches + 1
         /\ profileFetches' = profileFetches + 1
    ELSE /\ conns' = EffectCleanup(session, conns)
         /\ UNCHANGED <<sockCount, socketRef, roomFetches, profileFetches>>

\* useSession() hands the component a new session object (sign-in, sign-out,
\* or a refetch of the same user).
SessionChange(s) ==
    /\ s # "null" \/ session # "null"
    /\ session' = s
    /\ RunEffect(s, selectedRoom)
    /\ UNCHANGED <<rooms, selectedRoom, messages, newMessage, isSidebarOpen,
                   isTyping, userProfile, typingTimeoutRef, timers, outbox,
                   profilePuts, membership>>

\* Click on a room of the sidebar (rendered only with a session).
SelectRoom(r) ==
    /\ session # "null"
    /\ \E i \in 1..Len(rooms) : rooms[i] = r
    /\ selectedRoom' = r
    /\ isSidebarOpen' = FALSE
    /\ RunEffect(session, r)
    /\ UNCHANGED <<session, rooms, messages, newMessage, isTyping, userProfile,
                   typingTimeoutRef, timers, outbox, profilePuts, membership>>

\* fetch('/api/rooms').then(res => res.json()).then(setRooms)
RoomLists == {<<"r1">>, <<"r1", "r2">>}

FetchRoomsDone(list) ==
    /\ roomFetches > 0
    /\ roomFetches' = roomFetches - 1
    /\ rooms' = list
    /\ UNCHANGED <<session, selectedRoom, messages, newMessage, isSidebarOpen,
                   isTyping, userProfile, socketRef, typingTimeoutRef, sockCount,
                   conns, timers, outbox, profileFetches,
                   profilePuts, membership>>

\* The transport of socket c closes (server or network).  socket.io marks the
\* socket disconnected; the component registers no 'disconnect' handler, so
\* no state of it changes.  socketRef keeps the socket.
TransportClose(c) ==
    /\ c \in conns
    /\ conns' = conns \ {c}
    /\ UNCHANGED <<session, rooms, selectedRoom, messages, newMessage,
                   isSidebarOpen, isTyping, userProfile, socketRef,
                   typingTimeoutRef, sockCount, timers, outbox, roomFetches,
                   profileFetches, profilePuts, membership>>

(***************************************************************************)
(* Inbound events.  A handler runs on a connected socket c and sees the    *)
(* selectedRoom and session of the render that registered it (c.room,      *)
(* c.uid).  socket.io delivers nothing on a socket after disconnect().     *)
(***************************************************************************)
\* What decryptMessage does with one ciphertext: <<text>>, or <<>> when
\* toString(Utf8) throws.  An undecryptable ciphertext does either.
DecryptOutcomes(ciphertext) ==
    IF Decryptable(ciphertext)
    THEN {<<decryptMessage(ciphertext)>>}
    ELSE {<<>>, << <<>> >>}

\* { ...msg, content: decryptMessage(msg.content) }
Decrypted(msg, text) == [msg EXCEPT !.content = text]

\* initialMessages.map(...) under one outcome per ciphertext; <<>> when a
\* decryptMessage call throws and the handler is abandoned.
RECURSIVE MapDecrypt(_, _)
MapDecrypt(list, failText) ==
    IF list = <<>> THEN << <<>> >>
    ELSE LET m == Head(list)
             rest == MapDecrypt(Tail(list), failText)
             text == IF Decryptable(m.content) THEN <<decryptMessage(m.content)>>
                     ELSE failText
         IN IF text = <<>> \/ rest = <<>> THEN <<>>
            ELSE << <<Decrypted(m, text[1])>> \o rest[1] >>

\* on('initial messages', ({ roomId, messages }) => ...)
OnInitialMessages(c, roomId, list) ==
    /\ c \in conns
    /\ c.room = roomId
    /\ \E failText \in {<<>>, << <<>> >>} :
         LET res == MapDecrypt(list, failText)
         IN /\ res # <<>>
            /\ messages' = res[1]
    /\ UNCHANGED <<session, rooms, selectedRoom, newMessage, isSidebarOpen,
                   isTyping, userProfile, socketRef, typingTimeoutRef, sockCount,
                   conns, timers, outbox, roomFetches, profileFetches,
                   profilePuts, membership>>

\* setMessages(prev => [...prev, { ...msg, content }])
AppendMessage(prev, msg, text) == Append(prev, Decrypted(msg, text))

\* on('chat message', (msg) => ...)
OnChatMessage(c, msg) ==
    /\ c \in conns
    /\ c.room = msg.roomId
    /\ Len(messages) < MaxMsgs
    /\ \E text \in DecryptOutcomes(msg.content) :
         /\ text # <<>>
         /\ messages' = AppendMessage(messages, msg, text[1])
    /\ UNCHANGED <<session, rooms, selectedRoom, newMessage, isSidebarOpen,
                   isTyping, userProfile, socketRef, typingTimeoutRef, sockCount,
                   conns, timers, outbox, roomFetches, profileFetches,
                   profilePuts, membership>>

\* A variant that takes every identity for a remote one.
IsRemoteTyperAnyone(c, userId) == TRUE

\* userId !== session.user.id, with the session of the handler's closure
IsRemoteTyper(c, userId) == userId # c.uid

\* on('user typing', ({ userId, isTyping }) => ...)
OnUserTyping(c, userId, flag) ==
    /\ c \in conns
    /\ isTyping' = IF IsRemoteTyper(c, userId) THEN flag ELSE isTyping
    /\ UNCHANGED <<session, rooms, selectedRoom, messages, newMessage,
                   isSidebarOpen, userProfile, socketRef, typingTimeoutRef,
                   sockCount, conns, timers, outbox, roomFetches, profileFetches,
                   profilePuts, membership>>

\* msg.id === messageId ? { ...msg, status } : msg
WithStatus(msg, messageId, status) ==
    IF msg.id = messageId THEN [msg EXCEPT !.status = status] ELSE msg

\* on('message status updated', ({ messageId, status }) => ...)
OnMessageStatusUpdated(c, messageId, status) ==
    /\ c \in conns
    /\ messages' = [i \in 1..Len(messages) |-> WithStatus(messages[i], messageId, status)]
    /\ UNCHANGED <<session, rooms, selectedRoom, newMessage, isSidebarOpen,
                   isTyping, userProfile, socketRef, typingTimeoutRef, sockCount,
                   conns, timers, outbox, roomFetches, profileFetches,
                   profilePuts, membership>>

\* on('room created', (room) => setRooms(prev => [...prev, room]))
OnRoomCreated(c, room) ==
    /\ c \in conns
    /\ Len(rooms) < MaxRooms
    /\ rooms' = Append(rooms, room)
    /\ UNCHANGED <<session, selectedRoom, messages, newMessage, isSidebarOpen,
                   isTyping, userProfile, socketRef, typingTimeoutRef, sockCount,
                   conns, timers, outbox, roomFetches, profileFetches,
                   profilePuts, membership>>

\* room.users of the Room objects the server sends (by fetch or with 'room
\* created'): rooms are kept by id in this model, and no code writes users.
RoomUsers(roomId) == IF roomId = "r1" THEN {LocalUser, RemoteUser} ELSE {LocalUser}

InDirectory(roomId) == \E i \in 1..Len(rooms) : rooms[i] = roomId

\* The member set the component holds for a room.
MemberSet(roomId) == IF InDirectory(roomId) THEN RoomUsers(roomId) ELSE {}

MembershipEvent(ev, userId, roomId) == [ev |-> ev, userId |-> userId, roomId |-> roomId]

\* on('user joined', ({ userId, roomId }) => { }): the body is empty.  The
\* delivery itself is recorded in the history variable.
OnUserJoined(c, userId, roomId) ==
    /\ c \in conns
    /\ membership' = <<MembershipEvent("user joined", userId, roomId)>>
    /\ UNCHANGED <<session, rooms, selectedRoom, messages, newMessage,
                   isSidebarOpen, isTyping, userProfile, socketRef,
                   typingTimeoutRef, sockCount, conns, timers, outbox,
                   roomFetches, profileFetches, profilePuts>>

\* on('user left', ({ userId, roomId }) => { }): the body is empty.
OnUserLeft(c, userId, roomId) ==
    /\ c \in conns
    /\ membership' = <<MembershipEvent("user left", userId, roomId)>>
    /\ UNCHANGED <<session, rooms, selectedRoom, messages, newMessage,
                   isSidebarOpen, isTyping, userProfile, socketRef,
                   typingTimeoutRef, sockCount, conns, timers, outbox,
                   roomFetches, profileFetches, profilePuts>>

(***************************************************************************)
(* Inputs of the server.                                                   *)
(***************************************************************************)
GoodBody == AESEncrypt(Hello, secretKey, "s0")
ForeignBody == AESEncrypt(Hello, "other-key", "s0")

WireMessage(id, roomId, status, content) ==
    [id |-> id, roomId |-> roomId, status |-> status, content |-> content]

ChatMessages ==
    {WireMessage(id, r, "sent", GoodBody) : id \in MsgIds, r \in RoomIds}

SeedLists(roomId) ==
    { <<>>,
      <<WireMessage("m1", roomId, "sent", GoodBody)>>,
      <<WireMessage("m1", roomId, "delivered", GoodBody),
        WireMessage("m2", roomId, "sent", GoodBody)>> }

\* Messages whose content was enciphered under another key.
ForeignMessages ==
    {WireMessage(id, r, "sent", ForeignBody) : id \in MsgIds, r \in RoomIds}

\* Seeds that carry such a message, alone or after a readable one.
MixedSeedLists(roomId) ==
    { <<WireMessage("m1", roomId, "sent", ForeignBody)>>,
      <<WireMessage("m1", roomId, "sent", GoodBody),
        WireMessage("m2", roomId, "sent", ForeignBody)>> }

(***************************************************************************)
(* Outbound events.  socketRef.current?.emit(...) does nothing while the   *)
(* ref is null; on a socket that was disconnected the event is buffered by *)
(* socket.io and never transmitted (live = FALSE).                         *)
(***************************************************************************)
Emit(ob, event) ==
    IF socketRef = 0 THEN ob
    ELSE Append(ob, [event |-> event, live |-> Connected(socketRef)])

CanEmit == socketRef = 0 \/ Len(outbox) < MaxOut

ChatEmits == {i \in 1..Len(outbox) : outbox[i].event.ev = "chat message"}

CanSend == socketRef = 0 \/ (Len(outbox) < MaxOut /\ Cardinality(ChatEmits) < MaxSends)

\* { roomId: selectedRoom.id, content: encryptedContent, type }
ChatMessageEvent(roomId, type, content, salt) ==
    [ev |-> "chat message", roomId |-> roomId,
     content |-> encryptMessage(content, salt), type |-> type]

TypingEvent(roomId, flag) == [ev |-> "typing", roomId |-> roomId, isTyping |-> flag]

RoomIntentEvent(ev, roomId) == [ev |-> ev, roomId |-> roomId]

CreateRoomEvent(name, userIds) == [ev |-> "create room", name |-> name, userIds |-> userIds]

\* A variant that also shows the submitted message at once.
handleSendMessageOptimistic(type, content, salt) ==
    IF Trim(content) # <<>> /\ selectedRoom # "null"
    THEN /\ CanSend
         /\ outbox' = Emit(outbox, ChatMessageEvent(selectedRoom, type, content, salt))
         /\ newMessage' = <<>>
         /\ messages' = Append(messages, [id |-> "local", roomId |-> selectedRoom,
                                          status |-> "sent", content |-> content])
    ELSE UNCHANGED <<outbox, newMessage, messages>>

\* handleSendMessage(type, content): the primed outbox, newMessage and messages
\* (setMessages is not called).
handleSendMessage(type, content, salt) ==
    IF Trim(content) # <<>> /\ selectedRoom # "null"
    THEN /\ CanSend
         /\ outbox' = Emit(outbox, ChatMessageEvent(selectedRoom, type, content, salt))
         /\ newMessage' = <<>>
         /\ messages' = messages
    ELSE UNCHANGED <<outbox, newMessage, messages>>

\* Enter key or the send button: handleSendMessage('text', newMessage)
SendText(salt) ==
    /\ session # "null"
    /\ handleSendMessage("text", newMessage, salt)
    /\ UNCHANGED <<session, rooms, selectedRoom, isSidebarOpen,
                   isTyping, userProfile, socketRef, typingTimeoutRef, sockCount,
                   conns, timers, roomFetches, profileFetches,
                   profilePuts, membership>>

\* A file the user picks: its MIME type as <<major, minor>> and its bytes.
Files == { [type |-> <<"image/", "png">>, bytes |-> "b1"],
           [type |-> <<"video/", "mp4">>, bytes |-> "b1"],
           [type |-> <<"text/", "plain">>, bytes |-> "b1"] }

StartsWith(mime, prefix) == mime[1] = prefix

\* FileReader.readAsDataURL
DataURL(file) == <<"data:">> \o file.type \o <<";base64,", file.bytes>>

FileMessageType(file) ==
    IF StartsWith(file.type, "image/") THEN "image"
    ELSE IF StartsWith(file.type, "video/") THEN "video"
    ELSE "file"

\* handleFileUpload with reader.onload run to completion.
HandleFileUpload(file, salt) ==
    /\ session # "null"
    /\ handleSendMessage(FileMessageType(file), DataURL(file), salt)
    /\ UNCHANGED <<session, rooms, selectedRoom, isSidebarOpen,
                   isTyping, userProfile, socketRef, typingTimeoutRef, sockCount,
                   conns, timers, roomFetches, profileFetches,
                   profilePuts, membership>>

\* A variant that leaves the previous timer running.
ClearTypingTimeoutSkipped(ts) == ts

\* clearTimeout(typingTimeoutRef.current), guarded by the ref being set.
ClearTypingTimeout(ts) ==
    IF typingTimeoutRef # 0 THEN {t \in ts : t.h # typingTimeoutRef} ELSE ts

FreeHandles(ts) == (1..MaxTimers) \ {t.h : t \in ts}

NewHandle(ts) == CHOOSE h \in FreeHandles(ts) : \A g \in FreeHandles(ts) : h <= g

\* What a tick of handleTyping emits before it touches the timer.
TypingTickEmit(ob) == Emit(ob, TypingEvent(selectedRoom, TRUE))

\* handleTyping(): the primed outbox, timers and typingTimeoutRef.
handleTyping ==
    IF selectedRoom # "null"
    THEN LET cleared == ClearTypingTimeout(timers)
         IN /\ CanEmit
            /\ FreeHandles(cleared) # {}
            /\ outbox' = TypingTickEmit(outbox)
            /\ timers' = cleared \cup {[h |-> NewHandle(cleared), room |-> selectedRoom]}
            /\ typingTimeoutRef' = NewHandle(cleared)
    ELSE UNCHANGED <<outbox, timers, typingTimeoutRef>>

\* onChange of the message input: setNewMessage(e.target.value); handleTyping()
InputChange(value) ==
    /\ session # "null"
    /\ newMessage' = value
    /\ handleTyping
    /\ UNCHANGED <<session, rooms, selectedRoom, messages, isSidebarOpen,
                   isTyping, userProfile, socketRef, sockCount, conns,
                   roomFetches, profileFetches, profilePuts, membership>>

\* The setTimeout callback of handleTyping, 2000 ms after the tick that set it.
TypingTimeoutMs == 2000

TypingTimeoutFires(t) ==
    /\ t \in timers
    /\ CanEmit
    /\ timers' = timers \ {t}
    /\ outbox' = Emit(outbox, TypingEvent(t.room, FALSE))
    /\ UNCHANGED <<session, rooms, selectedRoom, messages, newMessage,
                   isSidebarOpen, isTyping, userProfile, socketRef,
                   typingTimeoutRef, sockCount, conns, roomFetches, profileFetches,
                   profilePuts, membership>>

\* onEmojiSelect: setNewMessage(prev => prev + emoji.native)
EmojiSelect(emoji) ==
    /\ session # "null"
    /\ Len(newMessage) < MaxDraft
    /\ newMessage' = Append(newMessage, emoji)
    /\ UNCHANGED <<session, rooms, selectedRoom, messages, isSidebarOpen,
                   isTyping, userProfile, socketRef, typingTimeoutRef, sockCount,
                   conns, timers, outbox, roomFetches, profileFetches,
                   profilePuts, membership>>

\* createRoom(name, userIds)
createRoom(name, userIds) ==
    /\ CanEmit
    /\ outbox' = Emit(outbox, CreateRoomEvent(name, userIds))
    /\ UNCHANGED <<session, rooms, selectedRoom, messages, newMessage,
                   isSidebarOpen, isTyping, userProfile, socketRef,
                   typingTimeoutRef, sockCount, conns, timers, roomFetches,
                   profileFetches, profilePuts, membership>>

\* joinRoom(roomId)
joinRoom(roomId) ==
    /\ CanEmit
    /\ outbox' = Emit(outbox, RoomIntentEvent("join room", roomId))
    /\ UNCHANGED <<session, rooms, selectedRoom, messages, newMessage,
                   isSidebarOpen, isTyping, userProfile, socketRef,
                   typingTimeoutRef, sockCount, conns, timers, roomFetches,
                   profileFetches, profilePuts, membership>>

\* leaveRoom(roomId)
leaveRoom(roomId) ==
    /\ CanEmit
    /\ outbox' = Emit(outbox, RoomIntentEvent("leave room", roomId))
    /\ UNCHANGED <<session, rooms, selectedRoom, messages, newMessage,
                   isSidebarOpen, isTyping, userProfile, socketRef,
                   typingTimeoutRef, sockCount, conns, timers, roomFetches,
                   profileFetches, profilePuts, membership>>

(***************************************************************************)
(* The profile.  A profile object is one token; the cache is <<>> for null *)
(* or <<profile>>.                                                         *)
(***************************************************************************)
Profiles == {"p0", "p1"}
ErrorBody == "error"
ProfilePatches == {"bio", "status"}

\* fetch(`/api/users/${session.user.id}`).then(res => res.json()).then(setUserProfile)
FetchProfileDone(body) ==
    /\ profileFetches > 0
    /\ profileFetches' = profileFetches - 1
    /\ userProfile' = <<body>>
    /\ UNCHANGED <<session, rooms, selectedRoom, messages, newMessage,
                   isSidebarOpen, isTyping, socketRef, typingTimeoutRef,
                   sockCount, conns, timers, outbox, roomFetches, profilePuts,
                   membership>>

\* updateProfile up to its await: the PUT is sent.  The two fields that call
\* it are rendered with a session and a cached profile only.
updateProfile(profile) ==
    /\ session # "null"
    /\ userProfile # <<>>
    /\ Len(profilePuts) < MaxPuts
    /\ profilePuts' = Append(profilePuts, [profile |-> profile, state |-> "pending",
                                           response |-> "none"])
    /\ UNCHANGED <<session, rooms, selectedRoom, messages, newMessage,
                   isSidebarOpen, isTyping, userProfile, socketRef,
                   typingTimeoutRef, sockCount, conns, timers, outbox,
                   roomFetches, profileFetches, membership>>

\* A variant that applies the body of every response.
SettleProfileUnchecked(ok, body, cached) == <<body>>

\* if (response.ok) { setUserProfile(await response.json()) }
SettleProfile(ok, body, cached) == IF ok THEN <<body>> ELSE cached

\* updateProfile after its await: the response of call i has arrived.
UpdateProfileResponse(i, ok, body) ==
    /\ i \in 1..Len(profilePuts)
    /\ profilePuts[i].state = "pending"
    /\ userProfile' = SettleProfile(ok, body, userProfile)
    /\ profilePuts' = [profilePuts EXCEPT ![i] =
                         [profile |-> @.profile,
                          state |-> IF ok THEN "ok" ELSE "failed",
                          response |-> body]]
    /\ UNCHANGED <<session, rooms, selectedRoom, messages, newMessage,
                   isSidebarOpen, isTyping, socketRef, typingTimeoutRef,
                   sockCount, conns, timers, outbox, roomFetches,
                   profileFetches, membership>>

\* The menu button: setIsSidebarOpen(!isSidebarOpen)
ToggleSidebar ==
    /\ session # "null"
    /\ isSidebarOpen' = ~isSidebarOpen
    /\ UNCHANGED <<session, rooms, selectedRoom, messages, newMessage, isTyping,
                   userProfile, socketRef, typingTimeoutRef, sockCount, conns,
                   timers, outbox, roomFetches, profileFetches,
                   profilePuts, membership>>

(***************************************************************************)
(* Next-state relations.  Next is the whole component.  The other          *)
(* specifications keep the connection effect and one group of operations,  *)
(* and leave the state that group never reads or writes at its initial     *)
(* value.                                                                  *)
(***************************************************************************)
EffectStep ==
    \/ \E s \in {"null", LocalUser} : SessionChange(s)
    \/ \E r \in RoomIds : SelectRoom(r)
    \/ \E l \in RoomLists : FetchRoomsDone(l)

StoreStep ==
    \/ \E c \in conns, r \in RoomIds : \E l \in SeedLists(r) : OnInitialMessages(c, r, l)
    \/ \E c \in conns, m \in ChatMessages : OnChatMessage(c, m)
    \/ \E c \in conns, id \in MsgIds, st \in Statuses : OnMessageStatusUpdated(c, id, st)

DirectoryStep ==
    \/ \E c \in conns, u \in UserIds, b \in BOOLEAN : OnUserTyping(c, u, b)
    \/ \E c \in conns, r \in RoomIds : OnRoomCreated(c, r)
    \/ \E c \in conns, u \in UserIds, r \in RoomIds : OnUserJoined(c, u, r)
    \/ \E c \in conns, u \in UserIds, r \in RoomIds : OnUserLeft(c, u, r)

PresenceStep ==
    \/ \E v \in Drafts : InputChange(v)
    \/ \E t \in timers : TypingTimeoutFires(t)

SendStep ==
    \/ \E salt \in Salts : SendText(salt)
    \/ \E f \in Files, salt \in Salts : HandleFileUpload(f, salt)
    \/ EmojiSelect("h")

ProfileStep ==
    \/ \E p \in Profiles : FetchProfileDone(p)
    \/ \E patch \in ProfilePatches : updateProfile(patch)
    \/ \E i \in 1..MaxPuts, p \in Profiles : UpdateProfileResponse(i, TRUE, p)
    \/ \E i \in 1..MaxPuts : UpdateProfileResponse(i, FALSE, ErrorBody)

IntentStep ==
    \/ createRoom("room", {RemoteUser})
    \/ \E r \in RoomIds : joinRoom(r)
    \/ \E r \in RoomIds : leaveRoom(r)

Next ==
    \/ EffectStep
    \/ StoreStep
    \/ DirectoryStep
    \/ PresenceStep
    \/ SendStep
    \/ IntentStep
    \/ ProfileStep
    \/ ToggleSidebar
    \/ \E c \in conns : TransportClose(c)

Spec == Init /\ [][Next]_vars

\* The message store: the effect and the inbound message events.
SpecStore == Init /\ [][EffectStep \/ StoreStep]_vars

\* Every inbound event, with the effect that registers the handlers.
SpecInbound ==
    Init /\ [][EffectStep
               \/ (\E c \in conns, r \in RoomIds :
                     \E l \in SeedLists(r) : OnInitialMessages(c, r, l))
               \/ (\E c \in conns, m \in ChatMessages : OnChatMessage(c, m))
               \/ (\E c \in conns, id \in MsgIds : OnMessageStatusUpdated(c, id, "read"))
               \/ (\E c \in conns, b \in BOOLEAN : OnUserTyping(c, RemoteUser, b))
               \/ (\E c \in conns : OnRoomCreated(c, "r2"))
               \/ (\E c \in conns : OnUserJoined(c, RemoteUser, "r1"))]_vars

\* Local typing presence: the effect, the input, the timer, leaving a room.
SpecPresence ==
    Init /\ [][EffectStep \/ InputChange(Hello)
               \/ (\E t \in timers : TypingTimeoutFires(t))
               \/ (\E r \in RoomIds : leaveRoom(r))]_vars

\* Sending: the effect, a draft typed before a room is open or picked from the
\* emoji picker, send and upload.
SpecSend ==
    Init /\ [][EffectStep
               \/ (\E salt \in Salts : SendText(salt))
               \/ (\E f \in Files : HandleFileUpload(f, "s1"))
               \/ EmojiSelect("h")
               \/ (\E v \in Drafts : selectedRoom = "null" /\ InputChange(v))]_vars

\* Submitting and receiving: the effect, the draft, send, inbound chat messages.
SpecSubmit ==
    Init /\ [][EffectStep \/ EmojiSelect("h") \/ SendText("s0")
               \/ (\E c \in conns, r \in RoomIds :
                     OnChatMessage(c, WireMessage("m2", r, "sent", GoodBody)))]_vars

\* Undecryptable content: the effect, and seeds and chat messages of which
\* some were enciphered under another key.
SpecDecrypt ==
    Init /\ [][EffectStep
               \/ (\E c \in conns, r \in RoomIds :
                     \E l \in MixedSeedLists(r) : OnInitialMessages(c, r, l))
               \/ (\E c \in conns, m \in ForeignMessages : OnChatMessage(c, m))
               \/ (\E c \in conns, r \in RoomIds :
                     OnChatMessage(c, WireMessage("m1", r, "sent", GoodBody)))]_vars

\* Operations without a connection: the effect, a transport that closes, the
\* input, send, the timer and the room intents.
SpecOffline ==
    Init /\ [][EffectStep
               \/ (\E c \in conns : TransportClose(c))
               \/ InputChange(Hello)
               \/ SendText("s0")
               \/ (\E t \in timers : TypingTimeoutFires(t))
               \/ createRoom("room", {RemoteUser})
               \/ joinRoom("r1")
               \/ leaveRoom("r1")]_vars

\* Remote typing presence: the effect, inbound 'user typing' events of both
\* identities, and the local input with its timer.  A timeout that is due is
\* run by the browser; when the server sends an event is up to the server.
SpecRemoteTyping ==
    /\ Init
    /\ [][EffectStep
          \/ (\E c \in conns, u \in UserIds, b \in BOOLEAN : OnUserTyping(c, u, b))
          \/ InputChange(Hello)
          \/ (\E t \in timers : TypingTimeoutFires(t))]_vars
    /\ WF_vars(\E t \in timers : TypingTimeoutFires(t))

\* The room directory: the effect with a room list fetched before room r2
\* existed, and the inbound room and membership events.
SpecDirectory ==
    Init /\ [][(\E s \in {"null", LocalUser} : SessionChange(s))
               \/ (\E r \in RoomIds : SelectRoom(r))
               \/ FetchRoomsDone(<<"r1">>)
               \/ (\E c \in conns, r \in RoomIds : OnRoomCreated(c, r))
               \/ (\E c \in conns, r \in RoomIds : OnUserJoined(c, RemoteUser, r))
               \/ (\E c \in conns, r \in RoomIds : OnUserLeft(c, RemoteUser, r))]_vars

\* The profile cache: the effect with its profile fetch, and updateProfile.
SpecProfile == Init /\ [][EffectStep \/ ProfileStep]_vars

(***************************************************************************)
(* Properties.                                                             *)
(***************************************************************************)
StatusRank(status) ==
    CASE status = "sent" -> 1
      [] status = "delivered" -> 2
      [] status = "read" -> 3

StatusUpdateStep ==
    \E c \in conns, id \in MsgIds, st \in Statuses : OnMessageStatusUpdated(c, id, st)

\* C1: a 'message status updated' event never moves a stored message's status
\* backwards in the order sent < delivered < read.
C1_StatusNeverRegresses ==
    [][StatusUpdateStep =>
         \A i \in 1..Len(messages) :
            StatusRank(messages'[i].status) >= StatusRank(messages[i].status)]_vars

\* C2: in every reachable state no message id occurs twice in the message list.
C2_NoDuplicateIds ==
    \A i, j \in 1..Len(messages) : i # j => messages[i].id # messages[j].id

\* C3: in every reachable state every displayed message belongs to the active
\* room, in particular right after the active room is switched.
C3_NoCrossRoomLeak ==
    \A i \in 1..Len(messages) : messages[i].roomId = selectedRoom

\* The event a step emits, when it emits one.
Emits(event) == Len(outbox') = Len(outbox) + 1 /\ outbox'[Len(outbox')].event = event

EmitsChatMessage ==
    Len(outbox') = Len(outbox) + 1 /\ outbox'[Len(outbox')].event.ev = "chat message"

EmittedChat == outbox'[Len(outbox')].event

\* C4: every 'chat message' the client emits carries the submitted content
\* (the draft of a text submission, the data URL of an upload) enciphered
\* under the configured key, and never that content itself.
C4_ChatMessagesAreEncrypted ==
    [][EmitsChatMessage =>
         /\ IsCiphertextUnder(EmittedChat.content, secretKey)
         /\ EmittedChat.content[2] \in Salts
         /\ \/ /\ EmittedChat.type = "text"
               /\ decryptMessage(EmittedChat.content) = newMessage
            \/ \E f \in Files :
                 /\ EmittedChat.type = FileMessageType(f)
                 /\ decryptMessage(EmittedChat.content) = DataURL(f)
         /\ EmittedChat.content # newMessage
         /\ \A f \in Files : EmittedChat.content # DataURL(f)]_vars

\* C4 witness: a text submission and an upload have both been emitted.
C4_Witness ==
    /\ \E i \in ChatEmits : outbox[i].event.type = "text"
    /\ \E i \in ChatEmits : outbox[i].event.type = "image"

\* C5: a tick of local activity that comes while the timer of an earlier tick
\* in the same room is pending emits no 'typing' = true.
C5_OneTruePerBurst ==
    [][\A r \in RoomIds :
         (\E t \in timers : t.room = r) => ~Emits(TypingEvent(r, TRUE))]_vars

\* The 'typing' events among the emitted ones, in order.
TypingEmits == SelectSeq(outbox, LAMBDA e : e.event.ev = "typing")

\* C6: a burst of ticks is closed by exactly one 'typing' = false, emitted when
\* the timer of the last tick elapses: while the last 'typing' event is a true
\* exactly one timer (that of the last tick, for its room) is pending; once
\* the false is emitted no timer is pending; and every false directly follows
\* a true for the same room.
C6_OneFalseAfterBurst ==
    LET ty == TypingEmits
    IN /\ Cardinality(timers) <= 1
       /\ \A t \in timers :
            ty # <<>> /\ ty[Len(ty)].event = TypingEvent(t.room, TRUE)
       /\ timers = {} => (ty = <<>> \/ ty[Len(ty)].event.isTyping = FALSE)
       /\ \A i \in 1..Len(ty) :
            ty[i].event.isTyping = FALSE =>
               i > 1 /\ ty[i - 1].event = TypingEvent(ty[i].event.roomId, TRUE)

\* C6 witness: two ticks in one room, then the timer has elapsed.
C6_Witness ==
    /\ Len(TypingEmits) = 3
    /\ TypingEmits[1].event = TypingEvent("r1", TRUE)
    /\ TypingEmits[2].event = TypingEvent("r1", TRUE)
    /\ TypingEmits[3].event = TypingEvent("r1", FALSE)
    /\ timers = {}

\* Room r has a 'typing' = true that no 'typing' = false for r has followed.
OutstandingTrue(r) ==
    \E i \in 1..Len(TypingEmits) :
       /\ TypingEmits[i].event = TypingEvent(r, TRUE)
       /\ \A j \in (i + 1)..Len(TypingEmits) :
            TypingEmits[j].event # TypingEvent(r, FALSE)

\* C7: a 'typing' = true for a room is followed by a 'typing' = false for that
\* room, also when the user leaves for another room and types there: once no
\* timer is left to emit it, no room has a true outstanding.
C7_StopSignalFollows ==
    timers = {} => \A r \in RoomIds : ~OutstandingTrue(r)

\* C8: when a socket is disconnected no debounce timer remains pending.
C8_DisconnectCancelsTimer ==
    [][(\E c \in conns : c \notin conns') => timers' = {}]_vars

\* A handler of connection c runs and changes the messages, the rooms or the
\* typing indicator.
HandlerMutates(c) ==
    /\ <<messages, rooms, isTyping>>' # <<messages, rooms, isTyping>>
    /\ \/ \E r \in RoomIds : \E l \in SeedLists(r) : OnInitialMessages(c, r, l)
       \/ \E m \in ChatMessages : OnChatMessage(c, m)
       \/ \E id \in MsgIds, st \in Statuses : OnMessageStatusUpdated(c, id, st)
       \/ \E u \in UserIds, b \in BOOLEAN : OnUserTyping(c, u, b)
       \/ \E r \in RoomIds : OnRoomCreated(c, r)

Rendered(msg) ==
    IF Decryptable(msg.content)
    THEN Decrypted(msg, decryptMessage(msg.content))
    ELSE Decrypted(msg, <<"undecryptable">>)

\* C11: a chat message or a seed that carries undecryptable content is stored
\* all the same: the chat message is appended and every message of the seed
\* is kept at its position, the undecryptable one with the marker
\* 'undecryptable' as content and the others with their text.
C11_UndecryptableIsMarked ==
    [][\A c \in conns :
         /\ \A m \in ForeignMessages :
              OnChatMessage(c, m) => messages' = Append(messages, Rendered(m))
         /\ \A r \in RoomIds : \A l \in MixedSeedLists(r) :
              OnInitialMessages(c, r, l) =>
                 messages' = [i \in 1..Len(l) |-> Rendered(l[i])]]_vars

\* C12: the sequence of the open room is what the channel delivered for that
\* room, in receipt order: once an inbound 'chat message' for the active room
\* has been appended, the sequence ends with that message and every message
\* in it is a message of that room.
C12_SequenceIsWhatWasDelivered ==
    [][\A c \in conns, m \in ChatMessages :
         OnChatMessage(c, m) =>
            /\ messages'[Len(messages')].id = m.id
            /\ \A i \in 1..Len(messages') : messages'[i].roomId = selectedRoom]_vars

\* C13: a click that makes a room active of which the client holds no message
\* emits, in that step, an event that names the room (the request for its
\* 'initial messages').
C13_SwitchRequestsSeed ==
    [][\A r \in RoomIds :
         (/\ SelectRoom(r)
          /\ selectedRoom # r
          /\ \A i \in 1..Len(messages) : messages[i].roomId # r)
         => \E i \in (Len(outbox) + 1)..Len(outbox') : outbox'[i].event.roomId = r]_vars

\* C14: while the user is signed in and the socket socketRef holds is not
\* connected, send and typing are no-ops: submitting the draft emits nothing
\* and leaves the draft, and a change of the input emits nothing and starts
\* no timer.
C14_NoOpWhileDisconnected ==
    [][(session # "null" /\ ~Connected(socketRef)) =>
         /\ SendText("s0") => UNCHANGED <<outbox, newMessage>>
         /\ InputChange(Hello) => UNCHANGED <<outbox, timers, typingTimeoutRef>>]_vars

\* C15: remote typing presence expires: whenever the typing indicator is on,
\* it is off again later, also when no further 'user typing' event arrives.
C15_RemoteTypingExpires == isTyping ~> ~isTyping

\* C16: an inbound 'user typing' event that carries the local user's id never
\* changes the typing indicator, whatever its flag and the indicator's value.
C16_OwnTypingIgnored ==
    [][\A c \in conns, b \in BOOLEAN :
         OnUserTyping(c, session, b) => isTyping' = isTyping]_vars

\* C16 witness: the indicator is on (a remote user types) while the socket of
\* the signed-in user is live, so an own 'user typing' = false, were it not
\* ignored, would switch it off.
C16_Witness ==
    /\ isTyping
    /\ session = LocalUser
    /\ \E c \in conns : c.id = socketRef /\ c.uid = session

\* C17: membership deltas are applied: after a 'user joined' for a room of the
\* directory the identity is in that room's member set, after a 'user left'
\* it is not, and the member sets of the other rooms are as before.
C17_MembershipApplied ==
    [][\A c \in conns, u \in UserIds, r \in RoomIds :
         /\ (OnUserJoined(c, u, r) /\ InDirectory(r)) => u \in MemberSet(r)'
         /\ (OnUserLeft(c, u, r) /\ InDirectory(r)) => u \notin MemberSet(r)'
         /\ (OnUserJoined(c, u, r) \/ OnUserLeft(c, u, r)) =>
               \A q \in RoomIds \ {r} : MemberSet(q)' = MemberSet(q)]_vars

C19_AnnouncedRoomStays ==
    [][/\ \A i, j \in 1..Len(rooms') : i # j => rooms'[i] # rooms'[j]
       /\ \A r \in RoomIds : InDirectory(r) => InDirectory(r)']_vars

\* C20: at most one connection is live at any time, and it is the socket that
\* socketRef holds: every re-run of the effect has disconnected the socket of
\* the run before it, so no other socket stays connected with its handlers.
C20_AtMostOneLiveConnection ==
    /\ Cardinality(conns) <= 1
    /\ \A c \in conns : c.id = socketRef

\* C20 witness: after a sign-in and two room switches the third socket is the
\* only live one.
C20_Witness ==
    /\ sockCount = 3
    /\ selectedRoom = "r2"
    /\ conns = {NewConnection(3, "r2", LocalUser)}

=============================================================================
